---- MODULE Spec2Model ----
(***************************************************************************)
(* State-machine model of the typescript-review domain model:              *)
(*   Currency  (src/src/shared/domain/model/currency.ts)                   *)
(*   Money     (src/src/shared/domain/model/money.ts)                      *)
(*   Customer  (src/src/crm/domain/model/customer.ts)                      *)
(*   DateTime  (src/unnamed/part_000)                                      *)
(*                                                                         *)
(* Objects live in heaps (sequences); a reference is an index into the     *)
(* heap of its class.  Every constructor or method call is one action; it  *)
(* records its outcome (value returned or error thrown) in `res`.          *)
(***************************************************************************)
EXTENDS Integers, Sequences, FiniteSets, TLC

VARIABLES
    currencies,   \* heap of Currency objects  [_code]
    moneys,       \* heap of Money objects     [_amount, _currency]
    customers,    \* heap of Customer objects  [_id, _name, _lastOrderPrice]
    dateTimes,    \* heap of DateTime objects  [_date]
    now,          \* the wall clock, in milliseconds since the epoch
    res           \* outcome of the last call

vars == <<currencies, moneys, customers, dateTimes, now, res>>

(***************************************************************************)
(* Bounds of the model.                                                    *)
(***************************************************************************)
MaxCurrencies == 2
MaxMoneys == 3
MaxCustomers == 1
MaxDateTimes == 2
MaxAmount == 1
MaxCodeLen == 3
MaxNameLen == 2
MaxNow == 2

(***************************************************************************)
(* The ECMAScript `number` type: finite values (integers here), NaN and    *)
(* the two infinities.  -0 is identified with 0 (every comparison the      *)
(* code makes treats them alike).                                          *)
(***************************************************************************)
Fin(n) == [k |-> "fin", v |-> n]
NaN == [k |-> "nan", v |-> 0]
Infinity == [k |-> "inf", v |-> 1]
NegInfinity == [k |-> "inf", v |-> -1]

IsNaN(x) == x.k = "nan"

Sign(x) == IF x.v > 0 THEN 1 ELSE IF x.v < 0 THEN -1 ELSE 0

\* x < y
Lt(x, y) ==
    IF IsNaN(x) \/ IsNaN(y) THEN FALSE
    ELSE IF x.k = "fin" /\ y.k = "fin" THEN x.v < y.v
    ELSE IF x.k = "inf" /\ y.k = "inf" THEN x.v < y.v
    ELSE IF x.k = "inf" THEN x.v < 0
    ELSE y.v > 0

\* x > y
Gt(x, y) == Lt(y, x)

\* x >= y
Ge(x, y) == ~IsNaN(x) /\ ~IsNaN(y) /\ ~Lt(x, y)

\* x + y
Plus(x, y) ==
    IF IsNaN(x) \/ IsNaN(y) THEN NaN
    ELSE IF x.k = "fin" /\ y.k = "fin" THEN Fin(x.v + y.v)
    ELSE IF x.k = "inf" /\ y.k = "inf" THEN (IF x.v = y.v THEN x ELSE NaN)
    ELSE IF x.k = "inf" THEN x
    ELSE y

\* x * y
Times(x, y) ==
    IF IsNaN(x) \/ IsNaN(y) THEN NaN
    ELSE IF x.k = "fin" /\ y.k = "fin" THEN Fin(x.v * y.v)
    ELSE IF Sign(x) = 0 \/ Sign(y) = 0 THEN NaN
    ELSE IF Sign(x) = Sign(y) THEN Infinity
    ELSE NegInfinity

\* the numbers a caller may pass
Numbers == {Fin(n) : n \in -1..MaxAmount} \cup {NaN, Infinity}

\* keeps finite amounts inside the model's range
InRange(x) == x.k = "fin" => x.v <= MaxAmount

(***************************************************************************)
(* Outcomes of a call.                                                     *)
(***************************************************************************)
None == <<>>

Returned(op, self, args, ret) ==
    [op |-> op, self |-> self, args |-> args, status |-> "ok", msg |-> "", ret |-> ret]

Thrown(op, self, args, msg) ==
    [op |-> op, self |-> self, args |-> args, status |-> "throw", msg |-> msg, ret |-> None]

NoCall == [op |-> "none", self |-> None, args |-> None, status |-> "ok", msg |-> "", ret |-> None]

(***************************************************************************)
(* Currency                                                                *)
(***************************************************************************)
\* strings are sequences of characters
Chars == {"A", "Z", "a", "1"}
UpperCaseLetter == {"A", "B", "C", "D", "E", "F", "G", "H", "I", "J", "K", "L", "M",
                    "N", "O", "P", "Q", "R", "S", "T", "U", "V", "W", "X", "Y", "Z"}

StringsUpTo(alphabet, n) == UNION {[1..m -> alphabet] : m \in 0..n}

\* what the CurrencyCode type describes
IsCurrencyCode(s) == Len(s) = 3 /\ \A i \in 1..3 : s[i] \in UpperCaseLetter

USD == <<"U", "S", "D">>
EUR == <<"E", "U", "R">>

\* new Currency(code)
NewCurrency(code) ==
    /\ Len(currencies) < MaxCurrencies
    /\ currencies' = Append(currencies, [_code |-> code])
    /\ res' = Returned("Currency", None, <<code>>, Len(currencies) + 1)
    /\ UNCHANGED <<moneys, customers, dateTimes, now>>

\* c.code
code(c) ==
    /\ res' = Returned("code", c, None, currencies[c]._code)
    /\ UNCHANGED <<currencies, moneys, customers, dateTimes, now>>

\* c.toString()
Currency_toString(c) ==
    /\ res' = Returned("Currency.toString", c, None, currencies[c]._code)
    /\ UNCHANGED <<currencies, moneys, customers, dateTimes, now>>

(***************************************************************************)
(* Money                                                                   *)
(***************************************************************************)
\* the body of Money's constructor: the object built, or the error thrown
MoneyConstructor(amount, currency) ==
    IF Lt(amount, Fin(0))
    THEN [ok |-> FALSE, msg |-> "Amount cannot be negative", obj |-> None]
    ELSE [ok |-> TRUE, msg |-> "", obj |-> [_amount |-> amount, _currency |-> currency]]

\* allocates the Money a constructor call built, or propagates its error
Construct(op, self, args, made) ==
    IF made.ok
    THEN /\ Len(moneys) < MaxMoneys
         /\ InRange(made.obj._amount)
         /\ moneys' = Append(moneys, made.obj)
         /\ res' = Returned(op, self, args, Len(moneys) + 1)
    ELSE /\ moneys' = moneys
         /\ res' = Thrown(op, self, args, made.msg)

\* new Money(amount, currency)
NewMoney(amount, currency) ==
    /\ Construct("Money", None, <<amount, currency>>, MoneyConstructor(amount, currency))
    /\ UNCHANGED <<currencies, customers, dateTimes, now>>

\* add, comparing the Currency objects instead of their codes
add_ByIdentity(m, other) ==
    /\ IF moneys[m]._currency # moneys[other]._currency
       THEN /\ moneys' = moneys
            /\ res' = Thrown("add", m, <<other>>, "Cannot add amounts with different currencies")
       ELSE Construct("add", m, <<other>>,
                MoneyConstructor(Plus(moneys[m]._amount, moneys[other]._amount),
                                 moneys[m]._currency))
    /\ UNCHANGED <<currencies, customers, dateTimes, now>>

\* add, accumulating into the receiver instead of building a new Money
add_InPlace(m, other) ==
    /\ IF currencies[moneys[m]._currency]._code # currencies[moneys[other]._currency]._code
       THEN /\ moneys' = moneys
            /\ res' = Thrown("add", m, <<other>>, "Cannot add amounts with different currencies")
       ELSE /\ InRange(Plus(moneys[m]._amount, moneys[other]._amount))
            /\ moneys' = [moneys EXCEPT ![m]._amount = Plus(@, moneys[other]._amount)]
            /\ res' = Returned("add", m, <<other>>, m)
    /\ UNCHANGED <<currencies, customers, dateTimes, now>>

\* m.add(other)
add(m, other) ==
    /\ IF currencies[moneys[m]._currency]._code # currencies[moneys[other]._currency]._code
       THEN /\ moneys' = moneys
            /\ res' = Thrown("add", m, <<other>>, "Cannot add amounts with different currencies")
       ELSE Construct("add", m, <<other>>,
                MoneyConstructor(Plus(moneys[m]._amount, moneys[other]._amount),
                                 moneys[m]._currency))
    /\ UNCHANGED <<currencies, customers, dateTimes, now>>

\* m.multiply(factor)
multiply(m, factor) ==
    /\ IF Lt(factor, Fin(0))
       THEN /\ moneys' = moneys
            /\ res' = Thrown("multiply", m, <<factor>>, "Factor cannot be negative")
       ELSE Construct("multiply", m, <<factor>>,
                MoneyConstructor(Times(moneys[m]._amount, factor), moneys[m]._currency))
    /\ UNCHANGED <<currencies, customers, dateTimes, now>>

(***************************************************************************)
(* Customer                                                                *)
(***************************************************************************)
Null == 0

\* the characters String.prototype.trim strips, among those used here
WhiteSpace == {" ", "\t", "\n"}
NameChars == {" ", "J"}

\* the identifiers crypto.randomUUID() may return
Uuids == {"uuid-a", "uuid-b"}

RECURSIVE trimStart(_)
trimStart(s) == IF s # <<>> /\ Head(s) \in WhiteSpace THEN trimStart(Tail(s)) ELSE s

RECURSIVE trimEnd(_)
trimEnd(s) ==
    IF s # <<>> /\ s[Len(s)] \in WhiteSpace THEN trimEnd(SubSeq(s, 1, Len(s) - 1)) ELSE s

\* name.trim()
trim(s) == trimEnd(trimStart(s))

\* new Customer(name), without trimming the name before testing it
NewCustomer_NoTrim(name, uuid) ==
    /\ IF Len(name) = 0
       THEN /\ customers' = customers
            /\ res' = Thrown("Customer", None, <<name>>, "Name cannot be empty")
       ELSE /\ Len(customers) < MaxCustomers
            /\ customers' = Append(customers,
                   [_id |-> uuid, _name |-> name, _lastOrderPrice |-> Null])
            /\ res' = Returned("Customer", None, <<name>>, Len(customers) + 1)
    /\ UNCHANGED <<currencies, moneys, dateTimes, now>>

\* new Customer(name); uuid is what crypto.randomUUID() returns
NewCustomer(name, uuid) ==
    /\ IF Len(name) = 0 \/ Len(trim(name)) = 0
       THEN /\ customers' = customers
            /\ res' = Thrown("Customer", None, <<name>>, "Name cannot be empty")
       ELSE /\ Len(customers) < MaxCustomers
            /\ customers' = Append(customers,
                   [_id |-> uuid, _name |-> name, _lastOrderPrice |-> Null])
            /\ res' = Returned("Customer", None, <<name>>, Len(customers) + 1)
    /\ UNCHANGED <<currencies, moneys, dateTimes, now>>

\* c.id
id(c) ==
    /\ res' = Returned("id", c, None, customers[c]._id)
    /\ UNCHANGED <<currencies, moneys, customers, dateTimes, now>>

\* c.name
name(c) ==
    /\ res' = Returned("name", c, None, customers[c]._name)
    /\ UNCHANGED <<currencies, moneys, customers, dateTimes, now>>

\* c.lastOrderPrice
lastOrderPrice(c) ==
    /\ res' = Returned("lastOrderPrice", c, None, customers[c]._lastOrderPrice)
    /\ UNCHANGED <<currencies, moneys, customers, dateTimes, now>>

\* the setter, storing null for a zero amount
set_lastOrderPrice_ClearOnZero(c, value) ==
    /\ customers' = [customers EXCEPT ![c]._lastOrderPrice =
                        IF moneys[value]._amount = Fin(0) THEN Null ELSE value]
    /\ res' = Returned("lastOrderPrice=", c, <<value>>, None)
    /\ UNCHANGED <<currencies, moneys, dateTimes, now>>

\* the setter, refusing a currency other than that of the stored value
set_lastOrderPrice_SameCurrency(c, value) ==
    /\ IF /\ customers[c]._lastOrderPrice # Null
          /\ currencies[moneys[customers[c]._lastOrderPrice]._currency]._code
                 # currencies[moneys[value]._currency]._code
       THEN /\ customers' = customers
            /\ res' = Thrown("lastOrderPrice=", c, <<value>>, "Currency mismatch")
       ELSE /\ customers' = [customers EXCEPT ![c]._lastOrderPrice = value]
            /\ res' = Returned("lastOrderPrice=", c, <<value>>, None)
    /\ UNCHANGED <<currencies, moneys, dateTimes, now>>

\* c.lastOrderPrice = value
set_lastOrderPrice(c, value) ==
    /\ customers' = [customers EXCEPT ![c]._lastOrderPrice = value]
    /\ res' = Returned("lastOrderPrice=", c, <<value>>, None)
    /\ UNCHANGED <<currencies, moneys, dateTimes, now>>

(***************************************************************************)
(* DateTime                                                                *)
(***************************************************************************)
\* the values a caller may pass to the constructor: nothing, a Date object
\* (holding a time value, NaN for an Invalid Date) or a string
Undefined == [t |-> "undefined", time |-> NaN, s |-> ""]
DateValue(time) == [t |-> "Date", time |-> time, s |-> ""]
StringValue(s) == [t |-> "string", time |-> NaN, s |-> s]

Digits == <<"0", "1", "2", "3", "4", "5", "6", "7", "8", "9">>

\* Date.prototype.toISOString, for the instants of the first second of the epoch
toISOString(t) ==
    "1970-01-01T00:00:00." \o Digits[(t \div 100) + 1] \o Digits[((t \div 10) % 10) + 1]
        \o Digits[(t % 10) + 1] \o "Z"

\* Date.parse: the instant an ISO-8601 string denotes, NaN for any other string
DateParse(s) ==
    IF \E t \in 0..999 : toISOString(t) = s
    THEN Fin(CHOOSE t \in 0..999 : toISOString(t) = s)
    ELSE NaN

\* the time value of new Date(value)
NewDate(value) == IF value.t = "Date" THEN value.time ELSE DateParse(value.s)

\* if (value): an object is truthy, a string is truthy unless it is empty
Truthy(value) == value.t = "Date" \/ (value.t = "string" /\ value.s # "")

\* allocates the DateTime holding `date`
StoreDateTime(value, date) ==
    /\ Len(dateTimes) < MaxDateTimes
    /\ dateTimes' = Append(dateTimes, [_date |-> date])
    /\ res' = Returned("DateTime", None, <<value>>, Len(dateTimes) + 1)

\* new DateTime(value), rejecting the present instant too
NewDateTime_NotBeforeNow(value) ==
    /\ IF Truthy(value)
       THEN LET parsedDate == NewDate(value)
            IN  IF IsNaN(parsedDate)
                THEN /\ dateTimes' = dateTimes
                     /\ res' = Thrown("DateTime", None, <<value>>, "Invalid date format")
                ELSE IF Ge(parsedDate, Fin(now))
                THEN /\ dateTimes' = dateTimes
                     /\ res' = Thrown("DateTime", None, <<value>>, "Date cannot be in the future")
                ELSE StoreDateTime(value, parsedDate)
       ELSE StoreDateTime(value, Fin(now))
    /\ UNCHANGED <<currencies, moneys, customers, now>>

\* new DateTime(value); `now` is what new Date() reads
NewDateTime(value) ==
    /\ IF Truthy(value)
       THEN LET parsedDate == NewDate(value)
            IN  IF IsNaN(parsedDate)
                THEN /\ dateTimes' = dateTimes
                     /\ res' = Thrown("DateTime", None, <<value>>, "Invalid date format")
                ELSE IF Gt(parsedDate, Fin(now))
                THEN /\ dateTimes' = dateTimes
                     /\ res' = Thrown("DateTime", None, <<value>>, "Date cannot be in the future")
                ELSE StoreDateTime(value, parsedDate)
       ELSE StoreDateTime(value, Fin(now))
    /\ UNCHANGED <<currencies, moneys, customers, now>>

\* d.value
DateTime_value(d) ==
    /\ res' = Returned("value", d, None, dateTimes[d]._date)
    /\ UNCHANGED <<currencies, moneys, customers, dateTimes, now>>

\* d.toString()
DateTime_toString(d) ==
    /\ res' = Returned("DateTime.toString", d, None, toISOString(dateTimes[d]._date.v))
    /\ UNCHANGED <<currencies, moneys, customers, dateTimes, now>>

\* the wall clock advances
Tick ==
    /\ now < MaxNow
    /\ now' = now + 1
    /\ UNCHANGED <<currencies, moneys, customers, dateTimes, res>>

(***************************************************************************)
(* Specifications                                                          *)
(***************************************************************************)
\* heaps of two Currency objects: two distinct instances of USD, or USD and EUR
SampleCurrencies ==
    {<<[_code |-> USD], [_code |-> USD]>>, <<[_code |-> USD], [_code |-> EUR]>>}

InitCurrency ==
    /\ currencies = <<>>
    /\ moneys = <<>>
    /\ customers = <<>>
    /\ dateTimes = <<>>
    /\ now = 0
    /\ res = NoCall

NextCurrency ==
    \/ \E c \in StringsUpTo(Chars, MaxCodeLen) : NewCurrency(c)
    \/ \E c \in DOMAIN currencies : code(c)
    \/ \E c \in DOMAIN currencies : Currency_toString(c)

SpecCurrency == InitCurrency /\ [][NextCurrency]_vars

InitMoney ==
    /\ currencies \in SampleCurrencies
    /\ moneys = <<>>
    /\ customers = <<>>
    /\ dateTimes = <<>>
    /\ now = 0
    /\ res = NoCall

NextMoney ==
    \/ \E a \in Numbers, c \in DOMAIN currencies : NewMoney(a, c)
    \/ \E m \in DOMAIN moneys, other \in DOMAIN moneys : add(m, other)
    \/ \E m \in DOMAIN moneys, f \in Numbers : multiply(m, f)

SpecMoney == InitMoney /\ [][NextMoney]_vars

\* Money values a caller holds: 1 USD, 1 EUR and 0 USD
SampleMoneys ==
    <<[_amount |-> Fin(1), _currency |-> 1],
      [_amount |-> Fin(1), _currency |-> 2],
      [_amount |-> Fin(0), _currency |-> 1]>>

InitCustomer ==
    /\ currencies = <<[_code |-> USD], [_code |-> EUR]>>
    /\ moneys = SampleMoneys
    /\ customers = <<>>
    /\ dateTimes = <<>>
    /\ now = 0
    /\ res = NoCall

NextCustomer ==
    \/ \E n \in StringsUpTo(NameChars, MaxNameLen), u \in Uuids : NewCustomer(n, u)
    \/ \E c \in DOMAIN customers : id(c)
    \/ \E c \in DOMAIN customers : name(c)
    \/ \E c \in DOMAIN customers : lastOrderPrice(c)
    \/ \E c \in DOMAIN customers, v \in DOMAIN moneys : set_lastOrderPrice(c, v)

SpecCustomer == InitCustomer /\ [][NextCustomer]_vars

\* what a caller passes to new DateTime
DateTimeInputs ==
    {Undefined}
        \cup {DateValue(Fin(t)) : t \in 0..(MaxNow + 1)} \cup {DateValue(NaN)}
        \cup {StringValue(toISOString(t)) : t \in 0..(MaxNow + 1)}
        \cup {StringValue(""), StringValue("not-a-date")}

InitDateTime ==
    /\ currencies = <<>>
    /\ moneys = <<>>
    /\ customers = <<>>
    /\ dateTimes = <<>>
    /\ now = 0
    /\ res = NoCall

NextDateTime ==
    \/ \E v \in DateTimeInputs : NewDateTime(v)
    \/ \E d \in DOMAIN dateTimes : DateTime_value(d)
    \/ \E d \in DOMAIN dateTimes : DateTime_toString(d)
    \/ Tick

SpecDateTime == InitDateTime /\ [][NextDateTime]_vars

(***************************************************************************)
(* Claims about Currency                                                   *)
(***************************************************************************)
\* C4: constructing a Currency succeeds, storing the code, for a code of
\* three uppercase letters and fails for every other string, so every
\* Currency that exists has a code of three uppercase letters.
C4_CurrencyValidated ==
    /\ \A c \in DOMAIN currencies : IsCurrencyCode(currencies[c]._code)
    /\ res.op = "Currency" =>
           IF IsCurrencyCode(res.args[1])
           THEN res.status = "ok" /\ currencies[res.ret]._code = res.args[1]
           ELSE res.status = "throw"

(***************************************************************************)
(* Claims about Customer                                                   *)
(***************************************************************************)
Blank(s) == \A i \in 1..Len(s) : s[i] \in WhiteSpace

\* C5: constructing a Customer fails with "Name cannot be empty", leaving
\* no Customer, when the name is empty or only whitespace; otherwise it
\* succeeds, stores the name as given, and lastOrderPrice is null until a
\* value is assigned.
C5_CustomerName ==
    [][/\ res'.op = "Customer" =>
              IF Blank(res'.args[1])
              THEN /\ res'.status = "throw"
                   /\ res'.msg = "Name cannot be empty"
                   /\ customers' = customers
              ELSE /\ res'.status = "ok"
                   /\ res'.ret \in DOMAIN customers' \ DOMAIN customers
                   /\ customers'[res'.ret]._name = res'.args[1]
                   /\ customers'[res'.ret]._lastOrderPrice = Null
       /\ \A c \in DOMAIN customers :
              customers'[c]._lastOrderPrice # customers[c]._lastOrderPrice =>
                  res'.op = "lastOrderPrice=" /\ res'.self = c]_vars

\* a Customer was constructed from a name with leading whitespace, and its
\* lastOrderPrice reads null
C5_Witness ==
    /\ res.op = "lastOrderPrice"
    /\ res.ret = Null
    /\ customers[res.self]._name[1] \in WhiteSpace

C7_SetLastOrderPrice ==
    [][/\ res'.op = "lastOrderPrice=" =>
              /\ res'.status = "ok"
              /\ customers'[res'.self]._lastOrderPrice = res'.args[1]
       /\ res'.op = "lastOrderPrice" =>
              /\ customers' = customers
              /\ res'.ret = customers[res'.self]._lastOrderPrice
       /\ \A c \in DOMAIN customers :
              /\ c \in DOMAIN customers'
              /\ customers'[c]._id = customers[c]._id
              /\ customers'[c]._name = customers[c]._name]_vars

\* a Money in EUR was assigned to a Customer
C7_Witness ==
    /\ res.op = "lastOrderPrice="
    /\ res.status = "ok"
    /\ customers[res.self]._lastOrderPrice = res.args[1]
    /\ currencies[moneys[res.args[1]]._currency]._code = EUR

(***************************************************************************)
(* Claims about DateTime                                                   *)
(***************************************************************************)
\* C8: every DateTime holds an instant not later than the clock read at
\* its construction: constructing from an instant after now fails with
\* "Date cannot be in the future", constructing from an instant at or before
\* now stores it, and constructing with no value stores now.
C8_NotInTheFuture ==
    [][/\ (res'.op = "DateTime" /\ now' = now) =>
              LET value == res'.args[1]
                  t == NewDate(value)
              IN  /\ value.t = "undefined" =>
                         /\ res'.status = "ok"
                         /\ dateTimes'[res'.ret]._date = Fin(now)
                  /\ (value.t # "undefined" /\ Gt(t, Fin(now))) =>
                         /\ res'.status = "throw"
                         /\ res'.msg = "Date cannot be in the future"
                         /\ dateTimes' = dateTimes
                  /\ (value.t # "undefined" /\ Ge(Fin(now), t)) =>
                         /\ res'.status = "ok"
                         /\ dateTimes'[res'.ret]._date = t
                  /\ res'.status = "ok" =>
                         /\ res'.ret \in DOMAIN dateTimes' \ DOMAIN dateTimes
                         /\ Ge(Fin(now), dateTimes'[res'.ret]._date)
       /\ \A d \in DOMAIN dateTimes :
              d \in DOMAIN dateTimes' /\ dateTimes'[d] = dateTimes[d]
       /\ \A d \in DOMAIN dateTimes' : Ge(Fin(now'), dateTimes'[d]._date)]_vars

\* a DateTime was constructed from the ISO string of the present instant,
\* after the clock had advanced
C8_Witness ==
    /\ res.op = "DateTime"
    /\ res.status = "ok"
    /\ res.args[1].t = "string"
    /\ now > 0
    /\ res.args[1].s = toISOString(now)
    /\ dateTimes[res.ret]._date = Fin(now)

\* C9: a value that is provided and does not parse to a valid instant makes
\* construction fail with "Invalid date format"; the default to now is taken
\* only when the value is omitted.
C9_InvalidDateFormat ==
    res.op = "DateTime" =>
        LET value == res.args[1]
        IN  /\ (value.t # "undefined" /\ IsNaN(NewDate(value))) =>
                   res.status = "throw" /\ res.msg = "Invalid date format"
            /\ (res.status = "ok" /\ value.t # "undefined") =>
                   dateTimes[res.ret]._date = NewDate(value)

(***************************************************************************)
(* Claims about Money                                                      *)
(***************************************************************************)
\* C1: every Money that exists has amount >= 0, and constructing a Money
\* from a negative amount fails.
C1_AmountNonNegative ==
    /\ \A m \in DOMAIN moneys : Ge(moneys[m]._amount, Fin(0))
    /\ (res.op = "Money" /\ Lt(res.args[1], Fin(0))) => res.status = "throw"

\* C2: m1.add(m2) fails exactly when the currency codes differ; otherwise it
\* returns a Money whose amount is m1.amount + m2.amount and whose currency
\* is m1's own Currency reference.
C2_Add ==
    [][res'.op = "add" =>
        LET m1 == moneys[res'.self]
            m2 == moneys[res'.args[1]]
            differ == currencies[m1._currency]._code # currencies[m2._currency]._code
        IN  /\ (res'.status = "throw") <=> differ
            /\ res'.status = "throw" =>
                   res'.msg = "Cannot add amounts with different currencies"
            /\ res'.status = "ok" =>
                   /\ res'.ret \in DOMAIN moneys'
                   /\ moneys'[res'.ret]._amount = Plus(m1._amount, m2._amount)
                   /\ moneys'[res'.ret]._currency = m1._currency]_vars

\* an add of two Money values holding distinct Currency objects with the
\* same code has succeeded
C2_Witness ==
    /\ res.op = "add"
    /\ res.status = "ok"
    /\ moneys[res.self]._currency # moneys[res.args[1]]._currency
    /\ moneys[res.ret]._amount = Fin(1)

\* C3: m.multiply(f) fails when f < 0 and otherwise returns a Money with
\* amount m.amount * f and m's currency; f = 0 yields a zero-amount Money.
C3_Multiply ==
    [][res'.op = "multiply" =>
        LET m == moneys[res'.self]
            f == res'.args[1]
        IN  /\ Lt(f, Fin(0)) => res'.status = "throw"
            /\ ~Lt(f, Fin(0)) =>
                   /\ res'.status = "ok"
                   /\ res'.ret \in DOMAIN moneys'
                   /\ moneys'[res'.ret]._amount = Times(m._amount, f)
                   /\ moneys'[res'.ret]._currency = m._currency
            /\ f = Fin(0) =>
                   /\ res'.status = "ok"
                   /\ moneys'[res'.ret]._amount = Fin(0)]_vars

\* C10: no call changes the amount or the currency of an existing Money; a
\* failing call leaves the heap as it was; a successful add or multiply
\* returns a Money that did not exist before.
C10_MoneyImmutable ==
    [][/\ \A m \in DOMAIN moneys : m \in DOMAIN moneys' /\ moneys'[m] = moneys[m]
       /\ \A c \in DOMAIN currencies : c \in DOMAIN currencies' /\ currencies'[c] = currencies[c]
       /\ res'.status = "throw" => moneys' = moneys
       /\ (res'.op \in {"add", "multiply"} /\ res'.status = "ok") =>
              /\ res'.ret \notin DOMAIN moneys
              /\ res'.ret \in DOMAIN moneys']_vars

\* an add has returned a Money distinct from the receiver and the argument,
\* which are themselves distinct
C10_Witness ==
    /\ res.op = "add"
    /\ res.status = "ok"
    /\ res.self # res.args[1]
    /\ res.ret # res.self
    /\ res.ret # res.args[1]

====
